---- MODULE Spec2Model ----
(***************************************************************************)
(* A model of src/server.py: the GatewayManager process supervisor (its    *)
(* start/stop/restart coroutines, the _read_output reader task and the     *)
(* bounded log deque) and the secret masking / merging functions.          *)
(*                                                                         *)
(* The supervisor runs on one asyncio event loop: a coroutine runs without *)
(* interruption from one await to the next, so every action below is one   *)
(* such run-to-suspension step.  The child processes and the event loop's  *)
(* child watcher are the environment.                                      *)
(***************************************************************************)
EXTENDS Integers, Sequences, FiniteSets, TLC

\* ------------------------------------------------------------------ bounds
\* Number of lifecycle calls (start/stop/restart tasks) that are ever created.
MaxCalls == 3
\* Number of child processes the operating system is asked to create.
MaxProcs == 2
\* Number of output lines one child writes before it goes quiet.
MaxLines == 1
\* Nesting depth of the stored configuration trees; submitted trees are one
\* level shallower.
MaxDepth == 3
\* Number of PUT /api/config requests that are ever made.
MaxPuts == 2

\* -------------------------------------------------------- program constants
\* deque(maxlen=500)
LogMaxLen == 500

Calls == 1..MaxCalls
Procs == 1..MaxProcs
Reqs == 1..MaxPuts

\* The exit statuses a child can end with: by itself, or by a signal.
OwnExitCodes == {1}
SigTermCode == 0 - 15
SigKillCode == 0 - 9

VARIABLES
    process,        \* self.process: 0 is None, otherwise the handle of child p
    state,          \* self.state
    logs,           \* self.logs
    start_time,     \* self.start_time: 0 is None
    restart_count,  \* self.restart_count
    read_tasks,     \* self._read_tasks: reader r is the task created with child r
    procs,          \* the children: OS state, handle's returncode, pipe
    calls,          \* the start()/stop()/restart() tasks and where each is suspended
    appended,       \* history: every line ever appended to self.logs, in order
    existing_data,  \* the stored configuration, as load_config() returns it
    shown,          \* the tree api_config_get answered with
    body,           \* the tree a client submits to api_config_put
    merged,         \* api_config_put's merged tree
    cfg_pc,         \* where the configuration exchange stands
    config_lock,    \* config_lock: 0 is unlocked, otherwise the request holding it
    puts,           \* the api_config_put requests: position and locals of each
    restarts        \* the requests that created a gateway.restart() task

supvars == <<process, state, logs, start_time, restart_count, read_tasks, procs,
             calls, appended>>
putvars == <<config_lock, puts, restarts>>
cfgvars == <<existing_data, shown, body, merged, cfg_pc, putvars>>
vars == <<supvars, cfgvars>>

\* ------------------------------------------------------------ the children
\* os: "unborn" | "running" | "dead";  reaped: the event loop has seen the exit,
\* i.e. handle.returncode is not None;  code: the exit status;  sig: the last
\* signal sent;  out: lines written to the pipe;  rd: lines read from it.
NoProc == [os |-> "unborn", reaped |-> FALSE, code |-> 0, sig |-> "none",
           out |-> 0, rd |-> 0]

\* process.returncode is None
ReturncodeIsNone(p) == ~procs[p].reaped

\* `self.process and self.process.returncode is None`
ProcessRunning == process /= 0 /\ ReturncodeIsNone(process)

\* time.time(): the clock is read once per successful spawn, and reads grow
Clock == Cardinality({p \in Procs : procs[p].os /= "unborn"}) + 1

\* ------------------------------------------------------------ the log deque
LogLine(kind, p, n) == [kind |-> kind, proc |-> p, n |-> n]

\* Mutant of DequeAppend: a full deque refuses the new line.
DequeAppendDropsNew(d, line) ==
    IF Len(d) >= LogMaxLen THEN d ELSE Append(d, line)

\* deque.append with maxlen: a full deque drops its oldest line
DequeAppend(d, line) ==
    IF Len(d) >= LogMaxLen THEN Append(Tail(d), line) ELSE Append(d, line)

\* list(gateway.logs)
api_logs == logs

\* ---------------------------------------------------------------- get_status
StatusPid == IF ProcessRunning THEN process ELSE 0

\* uptime is reported (not None) only with a start time and in state running
get_status == [state |-> state, pid |-> StatusPid,
               has_uptime |-> (start_time /= 0 /\ state = "running"),
               restart_count |-> restart_count]

\* ------------------------------------------------------ configuration trees
\* A tree is a tagged value: a string (a sequence of characters), another
\* scalar, a dict (a function on its keys) or a list (a sequence of trees).
Str(chars) == [t |-> "str", v |-> chars]
Num(i) == [t |-> "num", v |-> i]
Dict(f) == [t |-> "dict", v |-> f]
List(items) == [t |-> "list", v |-> items]
NoTree == [t |-> "none", v |-> 0]

SECRET_FIELDS == {"api_key", "apiKey", "token", "app_secret", "appSecret",
                  "encrypt_key", "encryptKey", "verification_token",
                  "verificationToken"}

\* "***"
MaskMarker == <<"*", "*", "*">>

\* v[:8]
Prefix8(v) == SubSeq(v, 1, IF Len(v) < 8 THEN Len(v) ELSE 8)

\* Mutant of MaskedValue: the marker is added to the whole value.
MaskedValueKeepsAll(v) == IF Len(v) > 8 THEN v \o MaskMarker ELSE MaskMarker

\* v[:8] + "***" if len(v) > 8 else "***"
MaskedValue(v) == IF Len(v) > 8 THEN Prefix8(v) \o MaskMarker ELSE MaskMarker

\* v.endswith("***")
EndsWithMarker(v) ==
    Len(v) >= Len(MaskMarker)
        /\ SubSeq(v, Len(v) - Len(MaskMarker) + 1, Len(v)) = MaskMarker

\* Mutant of IsSecretToMask: the key is not looked at.
IsSecretToMaskAnyKey(k, v) == v.t = "str" /\ v.v /= <<>>

\* k in SECRET_FIELDS and isinstance(v, str) and v
IsSecretToMask(k, v) == k \in SECRET_FIELDS /\ v.t = "str" /\ v.v /= <<>>

\* mask_secrets(data): the _path argument only names the place and is not used
RECURSIVE mask_secrets(_)
mask_secrets(data) ==
    CASE data.t = "dict" ->
            Dict([k \in DOMAIN data.v |->
                    IF IsSecretToMask(k, data.v[k])
                    THEN Str(MaskedValue(data.v[k].v))
                    ELSE mask_secrets(data.v[k])])
      [] data.t = "list" ->
            List([i \in 1..Len(data.v) |-> mask_secrets(data.v[i])])
      [] OTHER -> data

\* Mutant of IsPlaceholder: the key is not looked at.
IsPlaceholderAnyKey(k, v) == v.t = "str" /\ (EndsWithMarker(v.v) \/ v.v = <<>>)

\* k in SECRET_FIELDS and isinstance(v, str) and (v.endswith("***") or v == "")
IsPlaceholder(k, v) ==
    k \in SECRET_FIELDS /\ v.t = "str" /\ (EndsWithMarker(v.v) \/ v.v = <<>>)

\* existing_data.get(k, default)
DictGet(d, k, default) == IF k \in DOMAIN d.v THEN d.v[k] ELSE default

\* merge_secrets(new_data, existing_data)
RECURSIVE merge_secrets(_, _)
merge_secrets(new_data, old_data) ==
    IF new_data.t = "dict" /\ old_data.t = "dict"
    THEN Dict([k \in DOMAIN new_data.v |->
                 IF IsPlaceholder(k, new_data.v[k])
                 THEN DictGet(old_data, k, Str(<<>>))
                 ELSE merge_secrets(new_data.v[k], DictGet(old_data, k, Dict(<<>>)))])
    ELSE new_data

\* The trees of the model: under the secret key "apiKey" a leaf, under the plain
\* key "providers" any smaller tree; a list is empty or holds one smaller tree.
SecretKey == "apiKey"
PlainKey == "providers"

Secret8 == <<"s", "k", "-", "a", "b", "c", "d", "e">>
Secret9 == Secret8 \o <<"f">>

\* Values a stored configuration holds, and values a client may submit.
StoredLeaves == {Str(<<>>), Str(Secret8), Str(Secret9), Num(1)}
BodyLeaves == {Str(<<>>), Str(MaskMarker), Str(Secret8 \o MaskMarker),
               Str(Secret8), Num(1)}

DictsOver(leaves, sub) ==
    {Dict(<<>>)}
        \cup {Dict(SecretKey :> a) : a \in leaves}
        \cup {Dict(PlainKey :> x) : x \in sub}
        \cup {Dict((SecretKey :> a) @@ (PlainKey :> x)) : a \in leaves, x \in sub}

RECURSIVE TreesOf(_, _)
TreesOf(leaves, d) ==
    IF d = 0 THEN leaves
    ELSE LET sub == TreesOf(leaves, d - 1) IN
         leaves \cup DictsOver(leaves, sub)
                \cup {List(<<>>)} \cup {List(<<x>>) : x \in sub}

\* ------------------------------------------------- key case and redaction
\* _to_snake_case / _to_camel_case on the keys of the model
ToSnakeCase(k) == IF k = "apiKey" THEN "api_key" ELSE k
ToCamelCase(k) == IF k = "api_key" THEN "apiKey" ELSE k

\* {_to_snake_case(k): convert_keys(v) for k, v in data.items()}
RECURSIVE convert_keys(_)
convert_keys(data) ==
    CASE data.t = "dict" ->
            Dict([n \in {ToSnakeCase(k) : k \in DOMAIN data.v} |->
                    convert_keys(data.v[CHOOSE k \in DOMAIN data.v : ToSnakeCase(k) = n])])
      [] data.t = "list" -> List([i \in 1..Len(data.v) |-> convert_keys(data.v[i])])
      [] OTHER -> data

\* {_to_camel_case(k): convert_to_camel(v) for k, v in data.items()}
RECURSIVE convert_to_camel(_)
convert_to_camel(data) ==
    CASE data.t = "dict" ->
            Dict([n \in {ToCamelCase(k) : k \in DOMAIN data.v} |->
                    convert_to_camel(data.v[CHOOSE k \in DOMAIN data.v : ToCamelCase(k) = n])])
      [] data.t = "list" -> List([i \in 1..Len(data.v) |-> convert_to_camel(data.v[i])])
      [] OTHER -> data

\* The orders in which data.items() can yield the keys of the model: a dict
\* keeps the order of the submitted JSON.
KeyOrders == {<<"api_key", "providers">>, <<"providers", "api_key">>}

\* _collect_secret_values(data, field_name), the dicts iterated in order ord
RECURSIVE collect_secret_values(_, _, _)
RECURSIVE CollectItems(_, _, _, _)
CollectItems(d, keys, field_name, ord) ==
    IF keys = <<>> THEN <<>>
    ELSE LET k == Head(keys)
             v == d.v[k]
         IN  (IF k = field_name /\ v.t = "str"
              THEN <<v.v>>
              ELSE collect_secret_values(v, field_name, ord))
                 \o CollectItems(d, Tail(keys), field_name, ord)

RECURSIVE CollectList(_, _, _)
CollectList(items, field_name, ord) ==
    IF items = <<>> THEN <<>>
    ELSE collect_secret_values(Head(items), field_name, ord)
             \o CollectList(Tail(items), field_name, ord)

collect_secret_values(data, field_name, ord) ==
    CASE data.t = "dict" ->
            CollectItems(data, SelectSeq(ord, LAMBDA k : k \in DOMAIN data.v),
                         field_name, ord)
      [] data.t = "list" -> CollectList(data.v, field_name, ord)
      [] OTHER -> <<>>

\* sub in s: s holds sub as a contiguous part
Contains(s, sub) ==
    \E i \in 1..(Len(s) - Len(sub) + 1) : SubSeq(s, i, i + Len(sub) - 1) = sub

\* s.replace(old, new) for a non-empty old: left to right, without overlap
RECURSIVE Replace(_, _, _)
Replace(s, old, new) ==
    IF Len(s) < Len(old) THEN s
    ELSE IF SubSeq(s, 1, Len(old)) = old
         THEN new \o Replace(SubSeq(s, Len(old) + 1, Len(s)), old, new)
         ELSE <<Head(s)>> \o Replace(Tail(s), old, new)

\* if val and len(val) > 3: err_msg = err_msg.replace(val, "***")
RedactValue(err_msg, val) ==
    IF val /= <<>> /\ Len(val) > 3 THEN Replace(err_msg, val, MaskMarker) ELSE err_msg

RECURSIVE RedactValues(_, _)
RedactValues(err_msg, vals) ==
    IF vals = <<>> THEN err_msg
    ELSE RedactValues(RedactValue(err_msg, Head(vals)), Tail(vals))

\* `for field in SECRET_FIELDS`: the model's trees hold secrets under api_key
\* only, so the other fields collect nothing wherever they come in the order.
SecretFieldOrder == <<"api_key", "apiKey", "token", "app_secret", "appSecret",
                      "encrypt_key", "encryptKey", "verification_token",
                      "verificationToken">>

\* The redaction loops of api_config_put, over fields[i..]
RECURSIVE RedactFields(_, _, _, _)
RedactFields(err_msg, snake_data, fields, ord) ==
    IF fields = <<>> THEN err_msg
    ELSE RedactFields(
            RedactValues(err_msg, collect_secret_values(snake_data, Head(fields), ord)),
            snake_data, Tail(fields), ord)

Redact(err_msg, snake_data, ord) ==
    RedactFields(err_msg, snake_data, SecretFieldOrder, ord)

\* f"Validation error: {err_msg}"
ValidationPrefix == <<"V", "a", "l", "i", "d", "a", "t", "i", "o", "n", " ",
                      "e", "r", "r", "o", "r", ":", " ">>

\* ------------------------------------------------------------------- Init
\* op: "none" | "start" | "stop" | "restart";  pc: "idle", the await the task is
\* suspended at ("spawn" | "wait" | "killwait"), "done" or "raised";  ret: how
\* the call ended.
NoCall == [op |-> "none", pc |-> "idle", wproc |-> 0, tproc |-> 0, ret |-> "none"]

\* GatewayManager(): the supervisor as constructed
SupInit ==
    /\ process = 0
    /\ state = "stopped"
    /\ logs = <<>>
    /\ start_time = 0
    /\ restart_count = 0
    /\ read_tasks = [r \in Procs |-> [pc |-> "none", src |-> 0]]
    /\ procs = [p \in Procs |-> NoProc]
    /\ calls = [c \in Calls |-> NoCall]
    /\ appended = <<>>

\* An api_config_put request that has not been made: pc is "idle", then the
\* place the handler has reached, then "done";  resp is the response returned.
NoPut == [pc |-> "idle", body |-> NoTree, restart |-> FALSE, existing |-> NoTree,
          merged |-> NoTree, snake |-> NoTree, resp |-> "none", err |-> <<>>]

PutIdle ==
    /\ config_lock = 0
    /\ puts = [q \in Reqs |-> NoPut]
    /\ restarts = {}

\* No configuration request is under way.
CfgIdle ==
    /\ PutIdle
    /\ existing_data = Dict(<<>>)
    /\ shown = NoTree
    /\ body = NoTree
    /\ merged = NoTree
    /\ cfg_pc = "idle"

Init == SupInit /\ CfgIdle

\* A call that has not been made yet; calls are made in the order of their ids.
Idle(c) ==
    /\ calls[c].pc = "idle"
    /\ \A d \in Calls : d < c => calls[d].pc /= "idle"

\* A call suspended at an await: wproc is the child whose wait() it awaits,
\* tproc the child its stop() sent terminate() to.
Suspended(k, at, w, t) == [op |-> k, pc |-> at, wproc |-> w, tproc |-> t,
                           ret |-> "none"]
Returned(k, how) == [op |-> k, pc |-> "done", wproc |-> 0, tproc |-> 0, ret |-> how]
Raised(k) == [op |-> k, pc |-> "raised", wproc |-> 0, tproc |-> 0, ret |-> "raised"]

\* self.logs.append(line)
LogAppend(line) ==
    /\ logs' = DequeAppend(logs, line)
    /\ appended' = Append(appended, line)

\* process.terminate() / process.kill(): a signal reaches only a running child
Signal(p, sig) ==
    IF procs[p].os = "running" THEN [procs EXCEPT ![p].sig = sig] ELSE procs

\* ------------------------------------------------------------------ start()
\* Mutant of StartEntry: the guard on a running child is missing.
StartEntryNoGuard(c, k, st0) ==
    /\ state' = "starting"
    /\ calls' = [calls EXCEPT ![c] = Suspended(k, "spawn", 0, 0)]

\* start() from its first line to its first suspension, run inside call c of
\* kind k (start, or the tail of restart); st0 is self.state on entry.
StartEntry(c, k, st0) ==
    IF ProcessRunning
    THEN /\ state' = st0
         /\ calls' = [calls EXCEPT ![c] = Returned(k, "noop")]
    ELSE /\ state' = "starting"
         /\ calls' = [calls EXCEPT ![c] = Suspended(k, "spawn", 0, 0)]

StartBegin(c) ==
    /\ UNCHANGED cfgvars
    /\ Idle(c)
    /\ StartEntry(c, "start", state)
    /\ UNCHANGED <<process, logs, start_time, restart_count, read_tasks, procs,
                   appended>>

\* create_subprocess_exec returns a handle: the child exists and is tracked.
SpawnOk(c) ==
    /\ UNCHANGED cfgvars
    /\ calls[c].pc = "spawn"
    /\ \E p \in Procs :
        /\ procs[p].os = "unborn"
        /\ \A q \in Procs : q < p => procs[q].os /= "unborn"
        /\ procs' = [procs EXCEPT ![p].os = "running"]
        /\ process' = p
        /\ start_time' = Clock
        /\ read_tasks' = [read_tasks EXCEPT ![p] = [pc |-> "created", src |-> 0]]
    /\ state' = "running"
    /\ calls' = [calls EXCEPT ![c] = Returned(calls[c].op, "spawned")]
    /\ UNCHANGED <<logs, restart_count, appended>>

\* Mutant of SpawnFail: the exception leaves start() instead of being recorded.
SpawnFailRaises(c) ==
    /\ UNCHANGED cfgvars
    /\ calls[c].pc = "spawn"
    /\ calls' = [calls EXCEPT ![c] = Raised(calls[c].op)]
    /\ UNCHANGED <<process, state, logs, start_time, restart_count, read_tasks,
                   procs, appended>>

\* create_subprocess_exec raises: `except Exception` records it.
SpawnFail(c) ==
    /\ UNCHANGED cfgvars
    /\ calls[c].pc = "spawn"
    /\ state' = "error"
    /\ LogAppend(LogLine("fail", 0, c))
    /\ calls' = [calls EXCEPT ![c] = Returned(calls[c].op, "failed")]
    /\ UNCHANGED <<process, start_time, restart_count, read_tasks, procs>>

\* ------------------------------------------------------- stop() and restart()
\* Mutant of RestartCountNext: the count is reset instead of incremented.
RestartCountReset(n) == 1

\* self.restart_count += 1
RestartCountNext(n) == n + 1

\* What runs, without suspension, once stop() has set its final state inside
\* call c of kind k: stop() returns; restart() counts and enters start().
AfterStop(c, k) ==
    IF k = "restart"
    THEN /\ restart_count' = RestartCountNext(restart_count)
         /\ StartEntry(c, k, "stopped")
    ELSE /\ UNCHANGED restart_count
         /\ state' = "stopped"
         /\ calls' = [calls EXCEPT ![c] = Returned(k, "stopped")]

\* stop() from its first line to its first suspension (or to its early return).
StopEntry(c, k) ==
    IF ~ProcessRunning
    THEN /\ AfterStop(c, k)
         /\ UNCHANGED <<process, logs, start_time, read_tasks, procs, appended>>
    ELSE /\ state' = "stopping"
         /\ procs' = Signal(process, "term")
         /\ calls' = [calls EXCEPT ![c] = Suspended(k, "wait", process, process)]
         /\ UNCHANGED <<process, logs, start_time, restart_count, read_tasks,
                        appended>>

StopBegin(c) == Idle(c) /\ StopEntry(c, "stop") /\ UNCHANGED cfgvars

RestartBegin(c) == Idle(c) /\ StopEntry(c, "restart") /\ UNCHANGED cfgvars

\* The last two lines of stop(), then whatever follows in the caller.
StopFinish(c) ==
    /\ start_time' = 0
    /\ AfterStop(c, calls[c].op)
    /\ UNCHANGED <<process, logs, read_tasks, appended>>

\* wait_for(process.wait(), 10) returns: the awaited child's exit was seen.
WaitDone(c) ==
    /\ UNCHANGED cfgvars
    /\ calls[c].pc = "wait"
    /\ procs[calls[c].wproc].reaped
    /\ StopFinish(c)
    /\ UNCHANGED procs

\* wait_for raises TimeoutError: self.process (read again) is killed and awaited.
\* kill() on a handle whose transport is closed raises ProcessLookupError; on one
\* whose exit is known but whose transport is still open it does nothing, and
\* the wait() that follows returns at once.
WaitTimeout(c) ==
    /\ UNCHANGED cfgvars
    /\ calls[c].pc = "wait"
    /\ ~procs[calls[c].wproc].reaped
    /\ IF procs[process].reaped
       THEN \/ /\ calls' = [calls EXCEPT ![c] = Raised(calls[c].op)]
               /\ UNCHANGED <<process, state, logs, start_time, restart_count,
                              read_tasks, procs, appended>>
            \/ /\ StopFinish(c)
               /\ UNCHANGED procs
       ELSE /\ procs' = Signal(process, "kill")
            /\ calls' = [calls EXCEPT ![c] = Suspended(calls[c].op, "killwait", process,
                                                     calls[c].tproc)]
            /\ UNCHANGED <<process, state, logs, start_time, restart_count,
                           read_tasks, appended>>

\* `await self.process.wait()` after the kill returns.
KillWaitDone(c) ==
    /\ UNCHANGED cfgvars
    /\ calls[c].pc = "killwait"
    /\ procs[calls[c].wproc].reaped
    /\ StopFinish(c)
    /\ UNCHANGED procs

\* ------------------------------------------------------------ _read_output()
\* The task's first run: the loop condition, then readline() on self.process.
ReaderRun(r) ==
    /\ UNCHANGED cfgvars
    /\ read_tasks[r].pc = "created"
    /\ read_tasks' = [read_tasks EXCEPT ![r] = [pc |-> "reading", src |-> process]]
    /\ UNCHANGED <<process, state, logs, start_time, restart_count, procs, calls,
                   appended>>

\* readline() returns a line: it is appended, and the loop reads self.process again.
ReaderLine(r) ==
    /\ UNCHANGED cfgvars
    /\ read_tasks[r].pc = "reading"
    /\ LET s == read_tasks[r].src IN
        /\ procs[s].rd < procs[s].out
        /\ procs' = [procs EXCEPT ![s].rd = @ + 1]
        /\ LogAppend(LogLine("out", s, procs[s].rd + 1))
    /\ read_tasks' = [read_tasks EXCEPT ![r].src = process]
    /\ UNCHANGED <<process, state, start_time, restart_count, calls>>

\* The check after the loop: the exit is recorded only if the handle's
\* returncode is already set and the state is still running.
ExitDetected == process /= 0 /\ procs[process].reaped /\ state = "running"

\* readline() returns b"": the pipe is drained and its writer is gone.
ReaderEOF(r) ==
    /\ UNCHANGED cfgvars
    /\ read_tasks[r].pc = "reading"
    /\ LET s == read_tasks[r].src IN
        /\ procs[s].os = "dead"
        /\ procs[s].rd = procs[s].out
    /\ read_tasks' = [read_tasks EXCEPT ![r] = [pc |-> "done", src |-> @.src]]
    /\ IF ExitDetected
       THEN /\ state' = "error"
            /\ LogAppend(LogLine("exit", process, procs[process].code))
       ELSE UNCHANGED <<state, logs, appended>>
    /\ UNCHANGED <<process, start_time, restart_count, procs, calls>>

\* ------------------------------------------------------------ the environment
\* A running child writes a line to its stdout/stderr pipe.
ChildWrite(p) ==
    /\ UNCHANGED cfgvars
    /\ procs[p].os = "running"
    /\ procs[p].out < MaxLines
    /\ procs' = [procs EXCEPT ![p].out = @ + 1]
    /\ UNCHANGED <<process, state, logs, start_time, restart_count, read_tasks,
                   calls, appended>>

ExitCodes(sig) ==
    CASE sig = "kill" -> {SigKillCode}
      [] sig = "term" -> {SigTermCode}
      [] OTHER -> OwnExitCodes

\* A running child ends: by itself, or by the signal it was sent.
ChildExit(p) ==
    /\ UNCHANGED cfgvars
    /\ procs[p].os = "running"
    /\ \E code \in ExitCodes(procs[p].sig) :
        procs' = [procs EXCEPT ![p].os = "dead", ![p].code = code]
    /\ UNCHANGED <<process, state, logs, start_time, restart_count, read_tasks,
                   calls, appended>>

\* The event loop's child watcher reports the exit: returncode is set and the
\* tasks awaiting wait() become runnable.
ChildReaped(p) ==
    /\ UNCHANGED cfgvars
    /\ procs[p].os = "dead"
    /\ ~procs[p].reaped
    /\ procs' = [procs EXCEPT ![p].reaped = TRUE]
    /\ UNCHANGED <<process, state, logs, start_time, restart_count, read_tasks,
                   calls, appended>>

\* ------------------------------------------------------------------- Next
Next ==
    \/ \E c \in Calls : StartBegin(c)
    \/ \E c \in Calls : StopBegin(c)
    \/ \E c \in Calls : RestartBegin(c)
    \/ \E c \in Calls : SpawnOk(c)
    \/ \E c \in Calls : SpawnFail(c)
    \/ \E c \in Calls : WaitDone(c)
    \/ \E c \in Calls : WaitTimeout(c)
    \/ \E c \in Calls : KillWaitDone(c)
    \/ \E r \in Procs : ReaderRun(r)
    \/ \E r \in Procs : ReaderLine(r)
    \/ \E r \in Procs : ReaderEOF(r)
    \/ \E p \in Procs : ChildWrite(p)
    \/ \E p \in Procs : ChildExit(p)
    \/ \E p \in Procs : ChildReaped(p)

Spec == Init /\ [][Next]_vars

\* ======================================================== the supervisor claims
Born == {p \in Procs : procs[p].os /= "unborn"}
LiveChildren == {p \in Procs : procs[p].os = "running"}
MadeCalls == {c \in Calls : calls[c].op /= "none"}

\* C1: under every interleaving of start(), stop() and restart() calls, at no
\* time are two children spawned by the supervisor alive simultaneously.
C1_AtMostOneLiveChild == Cardinality(LiveChildren) <= 1

\* A step in which call c is made as a start() while the tracked child is alive.
StartCalledWhileRunning(c) ==
    /\ calls[c].pc = "idle"
    /\ calls'[c].op = "start"
    /\ ProcessRunning

\* C2: start() invoked while the tracked child is alive (handle present,
\* returncode unset) returns at once, spawns nothing and leaves state, pid,
\* start time, restartCount and the log buffer unchanged; and when a start()
\* that spawned is followed by a start() that found the child alive, with no
\* other call made, exactly one process has been spawned.
C2_StartWhileRunningIsNoop ==
    /\ [][\A c \in Calls : StartCalledWhileRunning(c) =>
            /\ calls'[c].pc = "done"
            /\ UNCHANGED <<process, state, logs, start_time, restart_count,
                           read_tasks, procs, appended>>]_vars
    /\ []((/\ MadeCalls = {1, 2}
           /\ calls[1] = Returned("start", "spawned")
           /\ calls[2] = Returned("start", "noop"))
          => Cardinality(Born) = 1)

C2_Witness ==
    /\ MadeCalls = {1, 2}
    /\ calls[1] = Returned("start", "spawned")
    /\ calls[2] = Returned("start", "noop")
    /\ Cardinality(Born) = 1
    /\ state = "running"

\* The restart() calls that have run `self.restart_count += 1`: those suspended
\* in their start() and those that returned.
CountedRestarts ==
    {c \in Calls : calls[c].op = "restart" /\ calls[c].pc \in {"spawn", "done"}}

\* C3: restartCount is exactly the number of restart() calls that have passed
\* their increment, whatever state each started from and however its spawn ended;
\* start(), stop() and the reader never change it; so once n restart() calls
\* have completed and none is in flight, restartCount = n.
C3_RestartCountExact == restart_count = Cardinality(CountedRestarts)

C3_Witness ==
    /\ restart_count = 2
    /\ \E c, d \in Calls :
        /\ c /= d
        /\ calls[c] = Returned("restart", "failed")
        /\ calls[d] = Returned("restart", "spawned")
    /\ \E c \in Calls : calls[c].op \in {"start", "stop"} /\ calls[c].pc = "done"

\* A step in which the stop() call c, suspended since it found the child
\* running, ends (returns or raises).
StopEnds(c) ==
    /\ calls[c].op = "stop"
    /\ calls[c].pc \in {"wait", "killwait"}
    /\ calls'[c].pc \in {"done", "raised"}

\* C4: when a stop() call invoked while the child is running returns, the state
\* is stopped and get_status()["pid"] is None.
C4_StopReturnsStoppedNoPid ==
    [][\A c \in Calls : StopEnds(c) /\ calls'[c].pc = "done" =>
            state' = "stopped" /\ StatusPid' = 0]_vars

\* C5: a stop() call whose graceful wait timed out kills the child and waits
\* for its exit: whenever such a call ends, it returns (it does not raise), the
\* child it terminated is dead, and the state is stopped (not error).
C5_StopEscalationEndsStopped ==
    [][\A c \in Calls : StopEnds(c) =>
            /\ calls'[c].pc = "done"
            /\ procs'[calls[c].tproc].os = "dead"
            /\ state' = "stopped"]_vars

\* A step in which the spawn awaited by call c fails: the await ends and no
\* child was created.
SpawnFails(c) ==
    /\ calls[c].pc = "spawn"
    /\ calls'[c].pc /= "spawn"
    /\ procs' = procs

\* C6: a spawn failure inside start() is not raised: start() returns, the state
\* becomes error, exactly one failure line is appended to the log buffer, and
\* no process handle is recorded (the tracked handle, hence the pid reported by
\* get_status(), is what it was).
C6_SpawnFailureRecorded ==
    [][\A c \in Calls : SpawnFails(c) =>
            /\ calls'[c].pc = "done"
            /\ state' = "error"
            /\ Len(appended') = Len(appended) + 1
            /\ appended'[Len(appended')].kind = "fail"
            /\ logs'[Len(logs')] = appended'[Len(appended')]
            /\ process' = process
            /\ StatusPid' = StatusPid]_vars

C6_Witness ==
    /\ \E c \in Calls : calls[c] = Returned("start", "failed")
    /\ state = "error"
    /\ StatusPid = 0
    /\ Len(logs) = 1
    /\ logs[1].kind = "fail"

\* A step in which reader r gets end-of-file from the output of the tracked
\* child, which ended by itself (no signal was sent), while the state is running.
ReaderSeesOwnExit(r) ==
    /\ read_tasks[r].pc = "reading"
    /\ read_tasks'[r].pc = "done"
    /\ read_tasks[r].src = process
    /\ procs[process].sig = "none"
    /\ state = "running"

\* C7: if the child exits by itself while the state is running, then when the
\* reader detects end-of-file the state becomes error and an "exited with code"
\* line is appended.
C7_OwnExitBecomesError ==
    [][\A r \in Procs : ReaderSeesOwnExit(r) =>
            /\ state' = "error"
            /\ Len(appended') = Len(appended) + 1
            /\ appended'[Len(appended')] =
                   LogLine("exit", process, procs[process].code)]_vars

\* A step in which a child process is created.
SpawnsChild == \E p \in Procs : procs[p].os = "unborn" /\ procs'[p].os = "running"

\* The stop() of call c (direct, or the one inside restart()) has begun
\* terminating the child and has not yet set the state to stopped and returned.
StopInProgress(c) == calls[c].pc \in {"wait", "killwait"}

\* C15: from the moment a stop() call has begun terminating the child until it
\* has set the state to stopped and returned, no start() (direct or inside
\* restart()) spawns a new child, under every interleaving.
C15_NoSpawnDuringStop ==
    [][SpawnsChild => \A c \in Calls : ~StopInProgress(c)]_vars

\* Reader r, the task created with child r, is suspended in readline().
Reading(r) == read_tasks[r].pc = "reading"

\* C16: each reader task reads only the output stream of the process it was
\* created for, and at no time do two reader tasks read from the same
\* process's stream.
C16_OneReaderPerChild ==
    \A r \in Procs :
        Reading(r) =>
            /\ read_tasks[r].src = r
            /\ \A o \in Procs \ {r} : Reading(o) => read_tasks[o].src /= read_tasks[r].src

\* C18: in every reachable state, state = stopped implies that get_status()
\* reports no pid: no tracked child is alive.
C18_StoppedHasNoPid == state = "stopped" => get_status.pid = 0

\* Every call has been made and has ended, a stop() was made after a start(),
\* and no start() or restart() was made after that stop().
AtRestAfterStop ==
    /\ MadeCalls = Calls
    /\ \A c \in Calls : calls[c].pc \in {"done", "raised"}
    /\ \E s \in Calls :
        /\ calls[s].op = "stop"
        /\ \E c \in Calls : c < s /\ calls[c].op = "start"
        /\ \A d \in Calls : d > s => calls[d].op = "stop"

\* C19: a stop request is never lost: once stop() was invoked after a start()
\* (also one still awaiting its spawn), no start() or restart() was invoked
\* afterwards and every call has ended, no child is alive and the state is
\* stopped.
C19_StopNeverLost ==
    AtRestAfterStop => (LiveChildren = {} /\ state = "stopped")

\* ------------------------------------------------------- the log buffer, full
\* The supervisor after n failed start() calls and nothing else: n failure lines
\* are in the log, no child was ever created, the state is error.
FailureLines(n) == [i \in 1..n |-> LogLine("fail", 0, i)]

InitLog ==
    /\ process = 0
    /\ state = "error"
    /\ \E n \in (LogMaxLen - 1)..LogMaxLen :
        /\ logs = FailureLines(n)
        /\ appended = FailureLines(n)
    /\ start_time = 0
    /\ restart_count = 0
    /\ read_tasks = [r \in Procs |-> [pc |-> "none", src |-> 0]]
    /\ procs = [p \in Procs |-> NoProc]
    /\ calls = [c \in Calls |-> NoCall]
    /\ CfgIdle

\* From there the operator only calls start(): every handler that appends to
\* the log (the spawn failure, the reader's lines and its exit line) can run.
NextLog ==
    \/ \E c \in Calls : StartBegin(c)
    \/ \E c \in Calls : SpawnOk(c)
    \/ \E c \in Calls : SpawnFail(c)
    \/ \E r \in Procs : ReaderRun(r)
    \/ \E r \in Procs : ReaderLine(r)
    \/ \E r \in Procs : ReaderEOF(r)
    \/ \E p \in Procs : ChildWrite(p)
    \/ \E p \in Procs : ChildExit(p)
    \/ \E p \in Procs : ChildReaped(p)

SpecLog == InitLog /\ [][NextLog]_vars

\* The last n elements of a sequence (all of it when it is shorter).
LastN(seq, n) ==
    IF Len(seq) <= n THEN seq ELSE SubSeq(seq, Len(seq) - n + 1, Len(seq))

\* C8: the log buffer never holds more than 500 lines, and it holds exactly the
\* last 500 lines appended (all of them while fewer were appended), in the
\* order of their appending: the oldest line is the one evicted.
C8_LogHoldsLastLines ==
    /\ Len(logs) <= LogMaxLen
    /\ api_logs = LastN(appended, LogMaxLen)

C8_Witness ==
    /\ Len(appended) >= LogMaxLen + 2
    /\ Len(logs) = LogMaxLen
    /\ \E i, j, k \in (LogMaxLen - 2)..LogMaxLen :
        /\ logs[i].kind = "out"
        /\ logs[j].kind = "exit"
        /\ logs[k].kind = "fail"
        /\ logs[k].n <= MaxCalls
    /\ logs[1] /= appended[1]

\* ------------------------------------------------------ the configuration API
StoredTrees == TreesOf(StoredLeaves, MaxDepth)
SubmittedTrees == TreesOf(BodyLeaves, MaxDepth - 1)

InitCfg ==
    /\ SupInit
    /\ existing_data \in StoredTrees
    /\ shown = NoTree
    /\ body = NoTree
    /\ merged = NoTree
    /\ cfg_pc = "stored"
    /\ PutIdle

\* api_config_get: the stored tree, masked
ConfigGet ==
    /\ cfg_pc = "stored"
    /\ shown' = mask_secrets(existing_data)
    /\ cfg_pc' = "shown"
    /\ UNCHANGED <<existing_data, body, merged, supvars, putvars>>

\* The client sends back, unedited, the tree it was shown.
SubmitUnedited ==
    /\ cfg_pc = "shown"
    /\ body' = shown
    /\ cfg_pc' = "submitted"
    /\ UNCHANGED <<existing_data, shown, merged, supvars, putvars>>

\* The client sends a tree of its own.
SubmitEdited ==
    /\ cfg_pc = "stored"
    /\ existing_data \in TreesOf(StoredLeaves, MaxDepth - 1)
    /\ body' \in SubmittedTrees
    /\ cfg_pc' = "submitted"
    /\ UNCHANGED <<existing_data, shown, merged, supvars, putvars>>

\* api_config_put: merged = merge_secrets(body, existing_data)
ConfigPutMerge ==
    /\ cfg_pc = "submitted"
    /\ merged' = merge_secrets(body, existing_data)
    /\ cfg_pc' = "merged"
    /\ UNCHANGED <<existing_data, shown, body, supvars, putvars>>

NextCfg == ConfigGet \/ SubmitUnedited \/ SubmitEdited \/ ConfigPutMerge

SpecCfg == InitCfg /\ [][NextCfg]_vars

\* ------------------------------------------------------------ api_config_put
\* A secret short enough for the redaction to pass over (len(val) <= 3).
Short3 == <<"k", "e", "y">>

\* The configurations on disk when the requests arrive.
PutStored ==
    {Dict(SecretKey :> Str(Secret8)),
     Dict((SecretKey :> Str(Secret9)) @@ (PlainKey :> Dict(SecretKey :> Str(Short3))))}

\* The JSON bodies the clients send: a placeholder, new secrets (a short one
\* and a long one inside a sequence), a plain value, and a body that is no mapping.
PutBodies ==
    {Dict(SecretKey :> Str(MaskMarker)),
     Dict((SecretKey :> Str(Short3))
          @@ (PlainKey :> List(<<Dict(SecretKey :> Str(Secret9))>>))),
     Dict((SecretKey :> Str(Secret9)) @@ (PlainKey :> Str(Secret8))),
     List(<<>>)}

InitPut ==
    /\ SupInit
    /\ existing_data \in PutStored
    /\ shown = NoTree
    /\ body = NoTree
    /\ merged = NoTree
    /\ cfg_pc = "idle"
    /\ PutIdle

\* The non-empty strings a tree holds, under any key.
RECURSIVE StringsIn(_)
StringsIn(tree) ==
    CASE tree.t = "dict" -> UNION {StringsIn(tree.v[k]) : k \in DOMAIN tree.v}
      [] tree.t = "list" -> UNION {StringsIn(tree.v[i]) : i \in 1..Len(tree.v)}
      [] tree.t = "str" -> IF tree.v = <<>> THEN {} ELSE {tree.v}
      [] OTHER -> {}

\* str(e) of the validator's exception: a text that quotes no input, or one
\* that quotes a string of the rejected input.
RawMessages(snake_data) ==
    {<<"?">>} \cup {<<"'">> \o v \o <<"'">> : v \in StringsIn(snake_data)}

\* A request ends with response r and error text e.
PutDone(q, r, e) == [puts EXCEPT ![q].pc = "done", ![q].resp = r, ![q].err = e]

\* The handler is entered and suspends in `await request.json()`; requests are
\* made in the order of their ids.
PutReceive(q) ==
    /\ puts[q].pc = "idle"
    /\ \A o \in Reqs : o < q => puts[o].pc /= "idle"
    /\ puts' = [puts EXCEPT ![q].pc = "json"]
    /\ UNCHANGED <<config_lock, restarts, existing_data, shown, body, merged,
                   cfg_pc, supvars>>

\* request.json() raises: 400 "Invalid JSON"
PutBadJson(q) ==
    /\ puts[q].pc = "json"
    /\ puts' = PutDone(q, "invalid_json", <<>>)
    /\ UNCHANGED <<config_lock, restarts, existing_data, shown, body, merged,
                   cfg_pc, supvars>>

\* request.json() returns the body; body.pop("_restartGateway", False) gives the
\* restart flag, or raises when the body is no mapping (answered with 500).
PutBody(q) ==
    /\ puts[q].pc = "json"
    /\ \E b \in PutBodies, r \in BOOLEAN :
        IF b.t /= "dict"
        THEN puts' = PutDone(q, "error", <<>>)
        ELSE puts' = [puts EXCEPT ![q].pc = "acquire", ![q].body = b,
                                  ![q].restart = r]
    /\ UNCHANGED <<config_lock, restarts, existing_data, shown, body, merged,
                   cfg_pc, supvars>>

\* Mutant of LockFree: the lock is not looked at.
LockIgnored == TRUE

\* config_lock can be acquired
LockFree == config_lock = 0

\* `async with config_lock:` is entered and load_config() runs: it raises (the
\* lock is released on the way out, answered with 500) or gives the stored tree.
PutLoad(q) ==
    /\ puts[q].pc = "acquire"
    /\ LockFree
    /\ \/ /\ puts' = PutDone(q, "error", <<>>)
          /\ config_lock' = 0
       \/ /\ puts' = [puts EXCEPT ![q].pc = "loaded", ![q].existing = existing_data]
          /\ config_lock' = q
    /\ UNCHANGED <<restarts, existing_data, shown, body, merged, cfg_pc, supvars>>

\* merged = merge_secrets(body, existing_data); snake_data = convert_keys(merged)
PutMerge(q) ==
    /\ puts[q].pc = "loaded"
    /\ LET m == merge_secrets(puts[q].body, puts[q].existing) IN
        puts' = [puts EXCEPT ![q].pc = "merged", ![q].merged = m,
                             ![q].snake = convert_keys(m)]
    /\ UNCHANGED <<config_lock, restarts, existing_data, shown, body, merged,
                   cfg_pc, supvars>>

\* Mutant of PutValidate: the merged tree is saved before it is validated.
PutValidateSavesFirst(q) ==
    /\ puts[q].pc = "merged"
    /\ \/ /\ puts' = [puts EXCEPT ![q].pc = "valid"]
          /\ UNCHANGED <<config_lock, existing_data>>
       \/ /\ \E raw \in RawMessages(puts[q].snake), ord \in KeyOrders :
                puts' = PutDone(q, "validation_error",
                                ValidationPrefix \o Redact(raw, puts[q].snake, ord))
          /\ config_lock' = 0
          /\ existing_data' = convert_to_camel(puts[q].snake)
    /\ UNCHANGED <<restarts, shown, body, merged, cfg_pc, supvars>>

\* Config.model_validate(snake_data): it accepts, or it raises and the redacted
\* message is answered with 400 (the lock is released on the way out).
PutValidate(q) ==
    /\ puts[q].pc = "merged"
    /\ \/ /\ puts' = [puts EXCEPT ![q].pc = "valid"]
          /\ UNCHANGED <<config_lock, existing_data>>
       \/ /\ \E raw \in RawMessages(puts[q].snake), ord \in KeyOrders :
                puts' = PutDone(q, "validation_error",
                                ValidationPrefix \o Redact(raw, puts[q].snake, ord))
          /\ config_lock' = 0
          /\ UNCHANGED existing_data
    /\ UNCHANGED <<restarts, shown, body, merged, cfg_pc, supvars>>

\* save_config(new_config): it raises (answered with 500) or the validated tree
\* is on disk, to be loaded in camel case; either way the lock is released.  The
\* schema's own defaults and coercions are not part of this program.
PutSave(q) ==
    /\ puts[q].pc = "valid"
    /\ config_lock' = 0
    /\ \/ /\ puts' = PutDone(q, "error", <<>>)
          /\ UNCHANGED existing_data
       \/ /\ puts' = [puts EXCEPT ![q].pc = "saved"]
          /\ existing_data' = convert_to_camel(puts[q].snake)
    /\ UNCHANGED <<restarts, shown, body, merged, cfg_pc, supvars>>

\* After the lock: the restart task is created if asked for, and 200 is answered.
PutRespond(q) ==
    /\ puts[q].pc = "saved"
    /\ restarts' = IF puts[q].restart THEN restarts \cup {q} ELSE restarts
    /\ puts' = PutDone(q, "ok", <<>>)
    /\ UNCHANGED <<config_lock, existing_data, shown, body, merged, cfg_pc, supvars>>

NextPut ==
    \/ \E q \in Reqs : PutReceive(q)
    \/ \E q \in Reqs : PutBadJson(q)
    \/ \E q \in Reqs : PutBody(q)
    \/ \E q \in Reqs : PutLoad(q)
    \/ \E q \in Reqs : PutMerge(q)
    \/ \E q \in Reqs : PutValidate(q)
    \/ \E q \in Reqs : PutSave(q)
    \/ \E q \in Reqs : PutRespond(q)

SpecPut == InitPut /\ [][NextPut]_vars

\* ===================================================== the configuration claims
\* Every secret-field value of the tree, at any depth, is a non-empty string.
RECURSIVE SecretsAreNonEmptyStrings(_)
SecretsAreNonEmptyStrings(tree) ==
    CASE tree.t = "dict" ->
            \A k \in DOMAIN tree.v :
                IF k \in SECRET_FIELDS
                THEN tree.v[k].t = "str" /\ tree.v[k].v /= <<>>
                ELSE SecretsAreNonEmptyStrings(tree.v[k])
      [] tree.t = "list" ->
            \A i \in 1..Len(tree.v) : SecretsAreNonEmptyStrings(tree.v[i])
      [] OTHER -> TRUE

\* The exchange was: GET, then PUT of the unedited answer, now merged.
UneditedRoundTrip == cfg_pc = "merged" /\ shown /= NoTree /\ body = shown

\* C9: masking round trip: for every stored mapping T whose secret-field values
\* are non-empty strings, merge_secrets(mask_secrets(T), T) = T, also when
\* secret fields occur in mappings nested inside sequences.
C9_MaskMergeRoundTrip ==
    (/\ UneditedRoundTrip
     /\ existing_data.t = "dict"
     /\ SecretsAreNonEmptyStrings(existing_data))
        => merged = existing_data

\* The value the previous tree holds for key k of a mapping, NoTree when the
\* previous tree has no such value (no mapping there, or no such key).
Corresponding(old, k) ==
    IF old.t = "dict" /\ k \in DOMAIN old.v THEN old.v[k] ELSE NoTree

\* What the merge precedence rule asks of the result res of merging the
\* submitted tree new with the previous tree old, at every depth of mappings.
RECURSIVE FollowsPrecedence(_, _, _)
FollowsPrecedence(new, old, res) ==
    new.t = "dict" =>
        /\ res.t = "dict"
        /\ DOMAIN res.v = DOMAIN new.v
        /\ \A k \in DOMAIN new.v :
            LET nv == new.v[k]
                ov == Corresponding(old, k)
            IN  IF k \in SECRET_FIELDS /\ nv.t = "str"
                THEN IF nv.v = <<>> \/ EndsWithMarker(nv.v)
                     THEN res.v[k] = (IF ov = NoTree THEN Str(<<>>) ELSE ov)
                     ELSE res.v[k] = nv
                ELSE FollowsPrecedence(nv, ov, res.v[k])

\* C10: merge precedence: at every depth of mappings of the submitted tree, a
\* secret field submitted as an empty string or as a string ending in "***"
\* gets the previous tree's corresponding value, or "" when the previous tree
\* has none; a secret field submitted as any other string keeps that string.
C10_MergePrecedence ==
    (cfg_pc = "merged" /\ existing_data.t = "dict")
        => FollowsPrecedence(body, existing_data, merged)

\* res has, at every mapping level, exactly the keys of the submitted tree new,
\* and equals new everywhere except at secret-field entries that new submits as
\* an empty string or as a string ending in "***".
RECURSIVE SubmittedExceptPlaceholders(_, _)
SubmittedExceptPlaceholders(new, res) ==
    IF new.t = "dict"
    THEN /\ res.t = "dict"
         /\ DOMAIN res.v = DOMAIN new.v
         /\ \A k \in DOMAIN new.v :
             LET nv == new.v[k] IN
                \/ /\ k \in SECRET_FIELDS
                   /\ nv.t = "str"
                   /\ nv.v = <<>> \/ EndsWithMarker(nv.v)
                \/ SubmittedExceptPlaceholders(nv, res.v[k])
    ELSE res = new

\* C20: the previous tree influences the result of merge_secrets only through
\* secret fields: at every mapping level the result has exactly the keys of the
\* submitted tree, and every result value equals the submitted value except at
\* secret-field entries submitted as "" or as a string ending in "***".
C20_PreviousOnlyAtPlaceholders ==
    cfg_pc = "merged" => SubmittedExceptPlaceholders(body, merged)

C20_Witness ==
    /\ cfg_pc = "merged"
    /\ existing_data =
         Dict((SecretKey :> Str(Secret9))
              @@ (PlainKey :> Dict((SecretKey :> Str(Secret9))
                                   @@ (PlainKey :> Num(1)))))
    /\ body =
         Dict((SecretKey :> Str(MaskMarker))
              @@ (PlainKey :> Dict(SecretKey :> Str(Secret8))))
    /\ merged =
         Dict((SecretKey :> Str(Secret9))
              @@ (PlainKey :> Dict(SecretKey :> Str(Secret8))))

\* ------------------------------------------------------------ masking alone
\* A stored secret may itself look like a masked value.
MaskLeaves == StoredLeaves \cup {Str(MaskMarker), Str(Secret8 \o MaskMarker)}
MaskTrees == TreesOf(MaskLeaves, MaxDepth)

InitMask ==
    /\ SupInit
    /\ existing_data \in MaskTrees
    /\ shown = NoTree
    /\ body = NoTree
    /\ merged = NoTree
    /\ cfg_pc = "stored"
    /\ PutIdle

NextMask == ConfigGet

SpecMask == InitMask /\ [][NextMask]_vars

\* The form a secret value v is to be displayed in.
DisplayForm(v) ==
    IF Len(v) > 8
    THEN <<v[1], v[2], v[3], v[4], v[5], v[6], v[7], v[8], "*", "*", "*">>
    ELSE <<"*", "*", "*">>

\* v is "***" or eight characters followed by "***".
MaskShaped(v) ==
    \/ v = <<"*", "*", "*">>
    \/ Len(v) = 11 /\ <<v[9], v[10], v[11]>> = <<"*", "*", "*">>

\* The value M holds under key k, or at position i; NoTree when it has none.
EntryOf(M, k) == IF M.t = "dict" /\ k \in DOMAIN M.v THEN M.v[k] ELSE NoTree
ItemOf(M, i) == IF M.t = "list" /\ i \in 1..Len(M.v) THEN M.v[i] ELSE NoTree

\* The pairs <<v, m>>: v the non-empty string a secret entry of T holds, at any
\* depth of mappings and sequences, and m what M holds at the same place.
RECURSIVE SecretEntries(_, _)
SecretEntries(T, M) ==
    CASE T.t = "dict" ->
            UNION {IF k \in SECRET_FIELDS /\ T.v[k].t = "str" /\ T.v[k].v /= <<>>
                   THEN {<<T.v[k].v, EntryOf(M, k)>>}
                   ELSE SecretEntries(T.v[k], EntryOf(M, k)) : k \in DOMAIN T.v}
      [] T.t = "list" ->
            UNION {SecretEntries(T.v[i], ItemOf(M, i)) : i \in 1..Len(T.v)}
      [] OTHER -> {}

\* C11 (as stated): every mapping entry of mask_secrets(T) whose key is a secret
\* field and whose value in T is a non-empty string v holds the first 8
\* characters of v followed by "***" when len(v) > 8 and exactly "***"
\* otherwise; hence the full value v is never what is displayed there.
C11_MaskedAndHidden ==
    cfg_pc = "shown" =>
        \A e \in SecretEntries(existing_data, shown) :
            /\ e[2] = Str(DisplayForm(e[1]))
            /\ e[2] /= Str(e[1])

\* C11 (amended): such an entry holds the first 8 characters of v followed by
\* "***" when len(v) > 8 and exactly "***" otherwise; hence the displayed value
\* differs from v unless v is itself "***" or eight characters followed by "***".
C11_MaskedAndHiddenUnlessMaskShaped ==
    cfg_pc = "shown" =>
        \A e \in SecretEntries(existing_data, shown) :
            /\ e[2] = Str(DisplayForm(e[1]))
            /\ e[2] /= Str(e[1]) \/ MaskShaped(e[1])

C11_Witness ==
    /\ cfg_pc = "shown"
    /\ existing_data =
         Dict((SecretKey :> Str(Secret8))
              @@ (PlainKey :> List(<<Dict(SecretKey :> Str(Secret9))>>)))
    /\ shown =
         Dict((SecretKey :> Str(<<"*", "*", "*">>))
              @@ (PlainKey :> List(<<Dict(SecretKey :>
                     Str(<<"s", "k", "-", "a", "b", "c", "d", "e", "*", "*", "*">>))>>)))

\* M has the shape of T and equals it everywhere except at mapping entries whose
\* key is a secret field and whose value in T is a non-empty string, where M
\* holds some string.
RECURSIVE SameExceptSecrets(_, _)
SameExceptSecrets(T, M) ==
    CASE T.t = "dict" ->
            /\ M.t = "dict"
            /\ DOMAIN M.v = DOMAIN T.v
            /\ \A k \in DOMAIN T.v :
                IF k \in SECRET_FIELDS /\ T.v[k].t = "str" /\ T.v[k].v /= <<>>
                THEN M.v[k].t = "str"
                ELSE SameExceptSecrets(T.v[k], M.v[k])
      [] T.t = "list" ->
            /\ M.t = "list"
            /\ Len(M.v) = Len(T.v)
            /\ \A i \in 1..Len(T.v) : SameExceptSecrets(T.v[i], M.v[i])
      [] OTHER -> M = T

\* C12: masking is non-destructive: mask_secrets(T) has the mapping keys and the
\* sequence lengths and order of T, and differs from T only at mapping entries
\* whose key is a secret field and whose value is a non-empty string; every
\* other leaf is unchanged.
C12_MaskKeepsShapeAndOtherLeaves ==
    cfg_pc = "shown" => SameExceptSecrets(existing_data, shown)

C12_Witness ==
    /\ cfg_pc = "shown"
    /\ existing_data =
         Dict((SecretKey :> Num(1))
              @@ (PlainKey :> List(<<Dict((SecretKey :> Str(Secret9))
                                          @@ (PlainKey :> Str(Secret9)))>>)))
    /\ shown /= existing_data
    /\ shown.v[SecretKey] = Num(1)
    /\ shown.v[PlainKey].v[1].v[PlainKey] = Str(Secret9)

\* ------------------------------------------------ the claims on api_config_put
\* Request q is inside the load-merge-validate-save sequence.
Inside(q) == puts[q].pc \in {"loaded", "merged", "valid"}

\* A step in which request q saves.
Saves(q) == puts[q].pc = "valid" /\ puts'[q].pc = "saved"

\* C13: at most one api_config_put is inside its load-merge-validate-save
\* sequence at any time; the lock is held by the request that is inside, from
\* its load through its save, and by no request that has left the sequence on
\* any path (validation failure, load or save error, success); and the tree a
\* request merged against is the stored tree at the moment it saves, so the
\* later of two concurrent edits merges against what the earlier one saved.
C13_ConfigWritesExclusive ==
    /\ [](Cardinality({q \in Reqs : Inside(q)}) <= 1)
    /\ [](\A q \in Reqs : Inside(q) <=> config_lock = q)
    /\ [][\A q \in Reqs : Saves(q) => puts[q].existing = existing_data]_vars

C13_Witness ==
    /\ puts[1].resp = "ok"
    /\ puts[1].body = Dict((SecretKey :> Str(Secret9)) @@ (PlainKey :> Str(Secret8)))
    /\ puts[2].pc = "saved"
    /\ puts[2].body = Dict(SecretKey :> Str(MaskMarker))
    /\ puts[2].existing = puts[1].body
    /\ existing_data = Dict(SecretKey :> Str(Secret9))
    /\ config_lock = 0

\* C14: when api_config_put rejects an invalid configuration, the error message
\* it returns holds no (non-empty) secret-field string value of the merged tree
\* as a contiguous part, whatever the merged tree and the validator's message.
C14_ValidationErrorRedacted ==
    \A q \in Reqs :
        puts[q].resp = "validation_error" =>
            \A e \in SecretEntries(puts[q].merged, puts[q].merged) :
                ~Contains(puts[q].err, e[1])

\* A step in which the validation of request q's merged tree fails.
ValidationFails(q) ==
    puts[q].pc = "merged" /\ puts'[q].resp = "validation_error"

\* C17: when validation of the merged tree fails, the stored configuration is
\* left unchanged, the request ends with a validation failure and no restart is
\* issued for it; the stored configuration changes only in the save of a
\* request whose tree was accepted; and a restart is issued only for a request
\* that asked for one, after its save and with the lock released.
C17_SaveOnlyWhenValid ==
    /\ [][\A q \in Reqs : ValidationFails(q) =>
            /\ existing_data' = existing_data
            /\ restarts' = restarts
            /\ puts'[q].pc = "done"]_vars
    /\ [](\A q \in Reqs : puts[q].resp = "validation_error" => q \notin restarts)
    /\ [][existing_data' /= existing_data => \E q \in Reqs : Saves(q)]_vars
    /\ [][\A q \in restarts' \ restarts :
            /\ puts[q].restart
            /\ puts[q].pc = "saved"
            /\ config_lock /= q]_vars

C17_Witness ==
    /\ puts[1].resp = "validation_error"
    /\ puts[1].restart
    /\ puts[1].merged /= existing_data
    /\ puts[2].resp = "ok"
    /\ restarts = {2}
    /\ existing_data = puts[2].merged

====
